---- MODULE Spec2Model ----
(***************************************************************************)
(* Model of scripts/generate_emsdk_llvm_map.py: the release-version value  *)
(* type, the changelog section extractor, the per-section LLVM version     *)
(* scan and the branch inference engine.                                   *)
(*                                                                         *)
(* Texts are modelled by what the regular expressions read from them:      *)
(*   - a run of decimal digits (\d+) is a non-empty sequence of digits,    *)
(*     so "01" is <<0, 1>> and differs from "1" = <<1>>;                   *)
(*   - a release key "X.Y.Z" is the triple of its three digit runs;        *)
(*   - a SemVer is the triple <<major, minor, patch>> of integers;         *)
(*   - None is the empty tuple, a dict is a function on its key set.       *)
(***************************************************************************)
EXTENDS Integers, Sequences, FiniteSets, TLC

VARIABLES pc, section_explicit, inferred, lines, headers, sections, section_lines, highest,
          release_to_llvm_version, min_llvm_major, llvm_major_map, flang_range, policy_map,
          text, parse_result, parse_raised,
          revisions_lines, revision_rows,
          range_arg, min_emsdk_arg, min_emsdk_version, tags_text, release_hashes, releases, output_file,
          llvm_version_arg, map_file, stdout

\* The locals of infer_branch_versions' call.
inferVars == <<section_explicit, inferred>>

\* The locals of parse_changelog_sections' call.
changelogVars == <<lines, headers, sections>>

\* The locals of highest_llvm_version_in_section's call.
highestVars == <<section_lines, highest>>

\* The locals of the aggregator's and the policy mapper's calls.
aggregateVars ==
    <<release_to_llvm_version, min_llvm_major, llvm_major_map, flang_range, policy_map>>

\* The argument and the outcome of SemVer.parse's call.
parseVars == <<text, parse_result, parse_raised>>

\* The argument and the result of parse_revisions_bzl's call.
revisionsVars == <<revisions_lines, revision_rows>>

\* The arguments, the locals and the output file of the generator's main.
mainVars == <<range_arg, min_emsdk_arg, min_emsdk_version, tags_text, release_hashes, releases, output_file>>

\* The arguments and the standard output of resolve_emsdk_for_llvm's main.
resolveVars == <<llvm_version_arg, map_file, stdout>>

vars ==
    <<pc, inferVars, changelogVars, highestVars, aggregateVars, parseVars, revisionsVars, mainVars,
      resolveVars>>

None == <<>>

EmptyDict == <<>>

\* The values of the variables a run has not assigned.
InferIdle == section_explicit = EmptyDict /\ inferred = EmptyDict

ChangelogIdle == lines = <<>> /\ headers = <<>> /\ sections = EmptyDict

HighestIdle == section_lines = <<>> /\ highest = None

AggregateIdle ==
    /\ release_to_llvm_version = EmptyDict
    /\ min_llvm_major = 0
    /\ llvm_major_map = EmptyDict
    /\ flang_range = <<>>
    /\ policy_map = EmptyDict

ParseIdle == text = <<>> /\ parse_result = None /\ parse_raised = FALSE

RevisionsIdle == revisions_lines = <<>> /\ revision_rows = EmptyDict

MainIdle ==
    /\ range_arg = <<>> /\ min_emsdk_arg = <<>> /\ min_emsdk_version = None
    /\ tags_text = [json |-> "", releases |-> EmptyDict] /\ release_hashes = EmptyDict
    /\ releases = EmptyDict /\ output_file = <<>>

ResolveIdle ==
    /\ llvm_version_arg = <<>>
    /\ map_file = [json |-> "", policy |-> EmptyDict, releases |-> EmptyDict]
    /\ stdout = <<>>

\* Every group of variables but the named ones has the values of a run that has
\* not assigned it.
OthersIdle(groups) ==
    /\ IF "infer" \in groups THEN TRUE ELSE InferIdle
    /\ IF "changelog" \in groups THEN TRUE ELSE ChangelogIdle
    /\ IF "highest" \in groups THEN TRUE ELSE HighestIdle
    /\ IF "aggregate" \in groups THEN TRUE ELSE AggregateIdle
    /\ IF "parse" \in groups THEN TRUE ELSE ParseIdle
    /\ IF "revisions" \in groups THEN TRUE ELSE RevisionsIdle
    /\ IF "main" \in groups THEN TRUE ELSE MainIdle
    /\ IF "resolve" \in groups THEN TRUE ELSE ResolveIdle

\* A step of one function leaves the locals of every other function alone.
OthersUnchanged(groups) ==
    /\ IF "infer" \in groups THEN TRUE ELSE UNCHANGED inferVars
    /\ IF "changelog" \in groups THEN TRUE ELSE UNCHANGED changelogVars
    /\ IF "highest" \in groups THEN TRUE ELSE UNCHANGED highestVars
    /\ IF "aggregate" \in groups THEN TRUE ELSE UNCHANGED aggregateVars
    /\ IF "parse" \in groups THEN TRUE ELSE UNCHANGED parseVars
    /\ IF "revisions" \in groups THEN TRUE ELSE UNCHANGED revisionsVars
    /\ IF "main" \in groups THEN TRUE ELSE UNCHANGED mainVars
    /\ IF "resolve" \in groups THEN TRUE ELSE UNCHANGED resolveVars

\* dict.get(key): the value, or None when the key is missing.
DictGet(d, k) == IF k \in DOMAIN d THEN d[k] ELSE None

\* d[k] = v on a dict: the key is added or its value replaced.
DictSet(d, k, v) == [x \in (DOMAIN d) \cup {k} |-> IF x = k THEN v ELSE d[x]]

(***************************************************************************)
(* SemVer                                                                  *)
(***************************************************************************)

\* int(text) of a digit run, base 10: leading zeros vanish.
RECURSIVE ParseInt(_)
ParseInt(digits) ==
    IF Len(digits) = 0 THEN 0
    ELSE 10 * ParseInt(SubSeq(digits, 1, Len(digits) - 1)) + digits[Len(digits)]

\* str(n) of a non-negative integer: the digit run without leading zeros.
RECURSIVE StrInt(_)
StrInt(n) == IF n < 10 THEN <<n>> ELSE Append(StrInt(n \div 10), n % 10)

\* SemVer.parse on a text that matches SEMVER_ONLY_RE.
SemVerParse(groups) == <<ParseInt(groups[1]), ParseInt(groups[2]), ParseInt(groups[3])>>

\* SemVer.__str__
SemVerStr(sv) == <<StrInt(sv[1]), StrInt(sv[2]), StrInt(sv[3])>>

\* A branch key that forgets the minor number.
short_branch_major_only(sv) == <<StrInt(sv[1])>>

\* SemVer.short_branch
short_branch(sv) == <<StrInt(sv[1]), StrInt(sv[2])>>

\* A comparison that looks at the major number only.
SemVerLess_major_only(a, b) == a[1] < b[1]

\* The order=True comparison of the dataclass: tuple order on (major, minor, patch).
SemVerLess(a, b) ==
    \/ a[1] < b[1]
    \/ a[1] = b[1] /\ a[2] < b[2]
    \/ a[1] = b[1] /\ a[2] = b[2] /\ a[3] < b[3]

(***************************************************************************)
(* highest_llvm_version_in_section                                         *)
(***************************************************************************)

\* found after the loops over the lines of the section from 0-based line position i:
\* one SemVer per match of LLVM_VERSION_RE, in document order.
\* SemVer(int(g1), int(g2), int(g3)) is the conversion SemVer.parse applies.
RECURSIVE FoundVersions(_, _, _)
FoundVersions(sl, i, found) ==
    IF i >= Len(sl) THEN found
    ELSE FoundVersions(sl, i + 1,
            found \o [n \in 1..Len(sl[i + 1].tokens) |-> SemVerParse(sl[i + 1].tokens[n])])

\* max(found) from 0-based position idx: the running maximum is replaced by an
\* element only when that element is greater.
RECURSIVE MaxFrom(_, _, _)
MaxFrom(found, idx, best) ==
    IF idx >= Len(found) THEN best
    ELSE MaxFrom(found, idx + 1,
            IF SemVerLess(best, found[idx + 1]) THEN found[idx + 1] ELSE best)

highest_llvm_version_in_section(sl) ==
    LET found == FoundVersions(sl, 0, <<>>)
    IN IF Len(found) = 0 THEN None ELSE MaxFrom(found, 1, found[1])

(***************************************************************************)
(* infer_branch_versions                                                   *)
(***************************************************************************)

\* The keys of a dict in one iteration order. The order only decides how releases
\* of equal patch follow each other in a branch, and those are equal SemVer values.
RECURSIVE KeysInOrder(_)
KeysInOrder(S) ==
    IF S = {} THEN <<>>
    ELSE LET k == CHOOSE x \in S : TRUE IN <<k>> \o KeysInOrder(S \ {k})

\* by_branch: branch -> the SemVer of every release of the branch, one per input key.
by_branch_of(se) ==
    LET order == KeysInOrder(DOMAIN se)
        parsed == [i \in 1..Len(order) |-> SemVerParse(order[i])]
        branches == {short_branch(parsed[i]) : i \in 1..Len(order)}
    IN [b \in branches |->
            SelectSeq(parsed, LAMBDA sv : short_branch(sv) = b)]

\* Insertion of x into a list sorted by key: after every element whose key is <= x's.
RECURSIVE InsertByPatch(_, _)
InsertByPatch(sorted, x) ==
    IF Len(sorted) = 0 THEN <<x>>
    ELSE IF sorted[Len(sorted)][3] <= x[3] THEN Append(sorted, x)
    ELSE Append(InsertByPatch(SubSeq(sorted, 1, Len(sorted) - 1), x), sorted[Len(sorted)])

\* sorted(versions, key=lambda x: x.patch): stable, ascending patch.
RECURSIVE SortedByPatch(_)
SortedByPatch(versions) ==
    IF Len(versions) = 0 THEN <<>>
    ELSE InsertByPatch(SortedByPatch(SubSeq(versions, 1, Len(versions) - 1)),
                       versions[Len(versions)])

\* The locals of one branch's walk before its first iteration.
WalkInit ==
    [current_version |-> None, current_anchor |-> None,
     first_known_index |-> None, first_known_version |-> None,
     first_known_anchor |-> None, assigned |-> EmptyDict]

\* The forward walk from 0-based position idx; first_known_index is <<idx>> once set.
RECURSIVE ForwardPass(_, _, _, _)
ForwardPass(se, versions_sorted, idx, st) ==
    IF idx >= Len(versions_sorted) THEN st
    ELSE LET sv == versions_sorted[idx + 1]
             key == SemVerStr(sv)
             explicit == DictGet(se, key)
         IN IF explicit # None
            THEN ForwardPass(se, versions_sorted, idx + 1,
                    [st EXCEPT
                       !.current_version = explicit,
                       !.current_anchor = key,
                       !.first_known_index =
                            IF st.first_known_index = None THEN <<idx>> ELSE @,
                       !.first_known_version =
                            IF st.first_known_index = None THEN explicit ELSE @,
                       !.first_known_anchor =
                            IF st.first_known_index = None THEN key ELSE @,
                       !.assigned = DictSet(@, key, <<explicit, key, "explicit">>)])
            ELSE IF st.current_version # None
            THEN ForwardPass(se, versions_sorted, idx + 1,
                    [st EXCEPT !.assigned =
                        DictSet(@, key,
                                <<st.current_version, st.current_anchor, "forward_fill">>)])
            ELSE ForwardPass(se, versions_sorted, idx + 1,
                    [st EXCEPT !.assigned = DictSet(@, key, <<None, None, "unknown">>)])

\* The backfill loop over range(first_known_index), from 0-based position idx.
RECURSIVE BackfillPass(_, _, _)
BackfillPass(versions_sorted, idx, st) ==
    IF idx >= st.first_known_index[1] THEN st.assigned
    ELSE BackfillPass(versions_sorted, idx + 1,
            [st EXCEPT !.assigned =
                DictSet(@, SemVerStr(versions_sorted[idx + 1]),
                        <<st.first_known_version, st.first_known_anchor,
                          "backward_fill">>)])

\* One iteration of the loop over by_branch: the branch's assigned dict.
AssignBranch(se, versions) ==
    LET versions_sorted == SortedByPatch(versions)
        st == ForwardPass(se, versions_sorted, 0, WalkInit)
    IN IF st.first_known_index # None /\ st.first_known_version # None
       THEN BackfillPass(versions_sorted, 0, st)
       ELSE st.assigned

\* out after the loop over the branches in todo, starting from out.
RECURSIVE CollectBranches(_, _, _, _)
CollectBranches(se, by_branch, todo, out) ==
    IF todo = {} THEN out
    ELSE LET b == CHOOSE x \in todo : TRUE
             assigned == AssignBranch(se, by_branch[b])
         IN CollectBranches(se, by_branch, todo \ {b},
                [k \in (DOMAIN out) \cup (DOMAIN assigned) |->
                    IF k \in DOMAIN assigned THEN assigned[k] ELSE out[k]])

infer_branch_versions(se) ==
    LET by_branch == by_branch_of(se)
    IN CollectBranches(se, by_branch, DOMAIN by_branch, EmptyDict)

(***************************************************************************)
(* parse_changelog_sections                                                *)
(*                                                                         *)
(* A changelog line is modelled by what the scanner reads from it:         *)
(*   kind   "header" when SECTION_HEADER_RE matches the stripped line,     *)
(*          "underline" when is_section_underline holds of it, else "text" *)
(*          (the two patterns exclude each other: a header starts with a   *)
(*          digit, an underline holds only dashes);                        *)
(*   semver the three digit runs of a header line (None otherwise);        *)
(*   tokens the matches of LLVM_VERSION_RE on the line, left to right,     *)
(*          each the triple of its digit runs.                             *)
(***************************************************************************)

HeaderLine(key) == [kind |-> "header", semver |-> key, tokens |-> <<>>]

UnderlineLine == [kind |-> "underline", semver |-> None, tokens |-> <<>>]

TextLine(tokens) == [kind |-> "text", semver |-> None, tokens |-> tokens]

\* SECTION_HEADER_RE.match(line.strip()) is not None
header_match(line) == line.kind = "header"

\* An underline test that accepts every line.
is_section_underline_any(line) == TRUE

is_section_underline(line) == line.kind = "underline"

\* The while loop of parse_changelog_sections from 0-based position i.
RECURSIVE ScanHeaders(_, _, _)
ScanHeaders(ls, i, hs) ==
    IF ~(i < Len(ls) - 1) THEN hs
    ELSE IF header_match(ls[i + 1]) /\ is_section_underline(ls[i + 2])
         THEN ScanHeaders(ls, i + 2, Append(hs, <<i, ls[i + 1].semver>>))
         ELSE ScanHeaders(ls, i + 1, hs)

\* A body that starts on the underline.
body_start_on_underline(line_no) == line_no + 1

\* body_start = line_no + 2
body_start_of(line_no) == line_no + 2

\* lines[a:b] for 0 <= a <= b <= len(lines)
Slice(ls, a, b) == SubSeq(ls, a + 1, b)

\* A store that keeps the body already recorded for the key.
store_section_keep_first(secs, semver, body) ==
    IF semver \in DOMAIN secs THEN secs ELSE DictSet(secs, semver, body)

\* sections[semver] = lines[body_start:body_end]
store_section(secs, semver, body) == DictSet(secs, semver, body)

\* lines[body_start:body_end] of the header at 0-based position idx of headers.
SectionBody(ls, hs, idx) ==
    LET line_no == hs[idx + 1][1]
        body_start == body_start_of(line_no)
        body_end == IF idx + 1 < Len(hs) THEN hs[idx + 2][1] ELSE Len(ls)
    IN Slice(ls, body_start, body_end)

\* The for loop over enumerate(headers) from 0-based position idx.
RECURSIVE StoreSections(_, _, _, _)
StoreSections(ls, hs, idx, secs) ==
    IF idx >= Len(hs) THEN secs
    ELSE StoreSections(ls, hs, idx + 1,
            store_section(secs, hs[idx + 1][2], SectionBody(ls, hs, idx)))

parse_changelog_sections(ls) ==
    StoreSections(ls, ScanHeaders(ls, 0, <<>>), 0, EmptyDict)

(***************************************************************************)
(* SemVer.parse on a text of characters                                    *)
(*                                                                         *)
(* A character is its decimal value when it is a digit and its code        *)
(* otherwise.                                                              *)
(***************************************************************************)

NL == 10

SP == 32

DOT == 46

IsDigit(c) == c \in 0..9

\* \d+ at position i: the position after the longest run of digits, i when there
\* is none.
RECURSIVE DigitsEnd(_, _)
DigitsEnd(chars, i) ==
    IF i <= Len(chars) /\ IsDigit(chars[i]) THEN DigitsEnd(chars, i + 1) ELSE i

\* $ without re.MULTILINE: at the end of the text, and before a newline that is the
\* last character of the text.
at_end(chars, i) ==
    \/ i = Len(chars) + 1
    \/ i = Len(chars) /\ chars[i] = NL

\* SEMVER_ONLY_RE.match(text): the three groups, or None.
SEMVER_ONLY_RE_match(chars) ==
    LET a == DigitsEnd(chars, 1)
        b == DigitsEnd(chars, a + 1)
        c == DigitsEnd(chars, b + 1)
    IN IF /\ a > 1
          /\ a <= Len(chars) /\ chars[a] = DOT
          /\ b > a + 1
          /\ b <= Len(chars) /\ chars[b] = DOT
          /\ c > b + 1
          /\ at_end(chars, c)
       THEN <<SubSeq(chars, 1, a - 1), SubSeq(chars, a + 1, b - 1), SubSeq(chars, b + 1, c - 1)>>
       ELSE None

(***************************************************************************)
(* parse_revisions_bzl                                                     *)
(*                                                                         *)
(* A line of the checksum document is a record:                            *)
(*   kind    "start" when REVISION_START_RE matches it, "field" when       *)
(*           REVISION_FIELD_RE does, "end" when its strip() is "),",       *)
(*           else "other"                                                  *)
(*   release group 1 of REVISION_START_RE, else None                       *)
(*   key, value  groups 1 and 2 of REVISION_FIELD_RE, else ""              *)
(***************************************************************************)

StartLine(release) == [kind |-> "start", release |-> release, key |-> "", value |-> ""]

FieldLine(key, value) == [kind |-> "field", release |-> None, key |-> key, value |-> value]

EndLine == [kind |-> "end", release |-> None, key |-> "", value |-> ""]

OtherLine == [kind |-> "other", release |-> None, key |-> "", value |-> ""]

\* A field store that keeps the value a key already has.
store_field_keep_first(fields, key, value) ==
    IF key \in DOMAIN fields THEN fields ELSE DictSet(fields, key, value)

\* current_fields[field_match.group(1)] = field_match.group(2)
store_field(fields, key, value) == DictSet(fields, key, value)

\* The loop over the lines from line i, with out, current_release (None or
\* <<release>>) and current_fields.
RECURSIVE RevisionsFrom(_, _, _, _, _)
RevisionsFrom(ls, i, out, current_release, current_fields) ==
    IF i > Len(ls) THEN out
    ELSE IF current_release = None
    THEN IF ls[i].kind = "start"
         THEN RevisionsFrom(ls, i + 1, out, <<ls[i].release>>, EmptyDict)
         ELSE RevisionsFrom(ls, i + 1, out, current_release, current_fields)
    ELSE IF ls[i].kind = "field"
    THEN RevisionsFrom(ls, i + 1, out, current_release,
                       store_field(current_fields, ls[i].key, ls[i].value))
    ELSE IF ls[i].kind = "end"
    THEN RevisionsFrom(ls, i + 1, DictSet(out, current_release[1], current_fields),
                       None, EmptyDict)
    ELSE RevisionsFrom(ls, i + 1, out, current_release, current_fields)

parse_revisions_bzl(ls) == RevisionsFrom(ls, 1, EmptyDict, None, EmptyDict)

(***************************************************************************)
(* latest_release_per_llvm_major and flang_prev_major_policy_map           *)
(***************************************************************************)

\* str(n) of an integer; the sign of a negative number is written -1.
IntStr(n) == IF n < 0 THEN <<-1>> \o StrInt(-n) ELSE StrInt(n)

\* A floor test that also drops the floor's own major.
below_floor_inclusive(llvm_ver, floor) == llvm_ver[1] <= floor

\* llvm_ver.major < min_llvm_major
below_floor(llvm_ver, floor) == llvm_ver[1] < floor

\* grouped: LLVM major -> SemVer.parse of every release kept, in iteration order.
grouped_of(r2l, floor) ==
    LET order == KeysInOrder(DOMAIN r2l)
        kept == SelectSeq(order, LAMBDA r : r2l[r] # None /\ ~below_floor(r2l[r], floor))
        majors == {r2l[kept[i]][1] : i \in 1..Len(kept)}
    IN [M \in majors |->
            LET mine == SelectSeq(kept, LAMBDA r : r2l[r][1] = M)
            IN [i \in 1..Len(mine) |-> SemVerParse(mine[i])]]

latest_release_per_llvm_major(r2l, floor) ==
    LET grouped == grouped_of(r2l, floor)
    IN [k \in {IntStr(M) : M \in DOMAIN grouped} |->
            LET M == CHOOSE x \in DOMAIN grouped : IntStr(x) = k
            IN SemVerStr(MaxFrom(grouped[M], 1, grouped[M][1]))]

\* The consumer major itself instead of the one before it.
prev_llvm_major_same(flang_major) == flang_major

\* flang_major - 1
prev_llvm_major_of(flang_major) == flang_major - 1

\* The loop over range(start_flang_major, end_flang_major + 1) from flang_major.
RECURSIVE PolicyFrom(_, _, _, _)
PolicyFrom(latest, flang_major, end_flang_major, out) ==
    IF flang_major > end_flang_major THEN out
    ELSE PolicyFrom(latest, flang_major + 1, end_flang_major,
            DictSet(out, IntStr(flang_major),
                    DictGet(latest, IntStr(prev_llvm_major_of(flang_major)))))

flang_prev_major_policy_map(latest, start_flang_major, end_flang_major) ==
    PolicyFrom(latest, start_flang_major, end_flang_major, EmptyDict)

(***************************************************************************)
(* main of the generator: the release-hash document and the assembly       *)
(*                                                                         *)
(* A key of the release-hash document is the tuple of its digit runs,      *)
(* followed by the run of characters after the third when there is one:    *)
(* "3.1" has two runs, "3.1.5" three, and "3.1.5" with a newline after it  *)
(* three and the run <<NL>>.                                               *)
(***************************************************************************)

\* The characters of a key.
KeyText(key) ==
    IF Len(key) = 2 THEN key[1] \o <<DOT>> \o key[2]
    ELSE key[1] \o <<DOT>> \o key[2] \o <<DOT>> \o key[3]
         \o (IF Len(key) > 3 THEN key[4] ELSE <<>>)

\* SemVer.parse(release) of a key SEMVER_ONLY_RE matches.
ParseRelease(release) == SemVerParse(SEMVER_ONLY_RE_match(KeyText(release)))

\* parse_emsdk_release_hashes on the document's releases object.
parse_emsdk_release_hashes(doc) ==
    [key \in {k \in DOMAIN doc.releases : SEMVER_ONLY_RE_match(KeyText(k)) # None} |->
        doc.releases[key]]

\* section_explicit: release -> highest_llvm_version_in_section of its section.
section_explicit_of(changelog_sections) ==
    [release \in DOMAIN changelog_sections |->
        highest_llvm_version_in_section(changelog_sections[release])]

PlatformKeys == {"sha_linux", "sha_linux_arm64", "sha_mac", "sha_mac_arm64", "sha_win"}

\* A copy of the checksum block that keeps every key of it.
binary_checksums_all(revision) == revision

\* binary_checksums: the platform keys of the release's block.
binary_checksums_of(revision) ==
    [key \in PlatformKeys \cap DOMAIN revision |-> revision[key]]

\* SemVer.parse(release) < min_emsdk_version
below_release_floor(release, floor) == SemVerLess(ParseRelease(release), floor)

\* inferred.get(release, (None, None, "unknown"))
inferred_get(inf, release) ==
    IF release \in DOMAIN inf THEN inf[release] ELSE <<None, None, "unknown">>

\* The releases the assembly loop does not skip.
kept_releases(hashes, floor) ==
    {release \in DOMAIN hashes : ~below_release_floor(release, floor)}

\* release_to_llvm_version after the loop.
release_to_llvm_version_of(hashes, inf, floor) ==
    [release \in kept_releases(hashes, floor) |-> inferred_get(inf, release)[1]]

\* An estimate that takes the minor number.
llvm_minor_estimate(llvm_ver) == <<llvm_ver[2]>>

\* llvm_ver.major, as <<major>>
llvm_major_estimate_of(llvm_ver) == <<llvm_ver[1]>>

\* releases after the loop.
releases_of(hashes, rows, inf, floor) ==
    [release \in kept_releases(hashes, floor) |->
        LET entry == inferred_get(inf, release)
            llvm_ver == entry[1]
            revision == IF release \in DOMAIN rows THEN rows[release] ELSE EmptyDict
        IN [emscripten_release_hash |-> hashes[release],
            llvm_version_estimate |-> IF llvm_ver # None THEN SemVerStr(llvm_ver) ELSE None,
            llvm_major_estimate |->
                IF llvm_ver # None THEN llvm_major_estimate_of(llvm_ver) ELSE None,
            mode |-> entry[3],
            anchor_release |-> entry[2],
            binary_checksums |-> binary_checksums_of(revision)]]

\* The computed fields of payload; the timestamp, sources and notes are constant
\* texts.
payload_of(latest, policy, rels) ==
    [llvm_major_latest_emsdk |-> latest,
     flang_major_to_prev_llvm_major_latest_emsdk |-> policy,
     releases |-> rels]

(***************************************************************************)
(* resolve_emsdk_for_llvm                                                  *)
(*                                                                         *)
(* An optional text or number of the mapping file is None when it is null  *)
(* or missing and <<v>> when it is the value v; a row of releases is a     *)
(* record of its two fields read, or the empty dict.                       *)
(***************************************************************************)

IsSpace(c) == c \in {NL, SP}

\* str.lstrip()
RECURSIVE LStrip(_)
LStrip(chars) ==
    IF chars # <<>> /\ IsSpace(Head(chars)) THEN LStrip(Tail(chars)) ELSE chars

\* str.rstrip()
RECURSIVE RStrip(_)
RStrip(chars) ==
    IF chars # <<>> /\ IsSpace(chars[Len(chars)])
    THEN RStrip(SubSeq(chars, 1, Len(chars) - 1))
    ELSE chars

\* An argument taken as it is.
strip_nothing(chars) == chars

\* version.strip()
strip(chars) == RStrip(LStrip(chars))

\* LLVM_VERSION_RE.match: the pattern of SEMVER_ONLY_RE.
LLVM_VERSION_RE_match(chars) == SEMVER_ONLY_RE_match(chars)

\* not x, for an optional text
is_falsy(x) == x = None \/ x = <<"">>

\* not release_row
is_falsy_row(row) == DOMAIN row = {}

\* The three lines written when every lookup succeeds, <<>> when main exits with
\* an error before them.
resolve_output(arg, file) ==
    LET match == LLVM_VERSION_RE_match(strip(arg))
    IN IF match = None THEN <<>>
       ELSE IF file.json = "missing" THEN <<>>
       ELSE IF file.json = "malformed" THEN <<>>
       ELSE LET llvm_major == ParseInt(match[1])
                emsdk_release == DictGet(file.policy, IntStr(llvm_major))
            IN IF is_falsy(emsdk_release) THEN <<>>
               ELSE LET release_row ==
                            IF emsdk_release[1] \in DOMAIN file.releases
                            THEN file.releases[emsdk_release[1]]
                            ELSE EmptyDict
                    IN IF is_falsy_row(release_row) THEN <<>>
                       ELSE IF is_falsy(release_row.emscripten_release_hash) THEN <<>>
                       ELSE IF release_row.llvm_major_estimate = None THEN <<>>
                       ELSE <<[name |-> "EMSDK_VERSION", value |-> emsdk_release[1]],
                              [name |-> "EMSDK_HASH",
                               value |-> release_row.emscripten_release_hash[1]],
                              [name |-> "EMSDK_EXPECTED_LLVM_MAJOR",
                               value |-> IntStr(release_row.llvm_major_estimate[1])]>>

(***************************************************************************)
(* Inputs of the inference engine                                          *)
(***************************************************************************)

\* The largest number of releases in one input mapping.
MaxReleases == 3

MajorTexts == {<<1>>}

MinorTexts == {<<0>>, <<1>>}

\* "0", "1", "2", "10" and the zero-padded "01".
PatchTexts == {<<0>>, <<1>>, <<2>>, <<1, 0>>, <<0, 1>>}

ReleaseKeys == MajorTexts \X MinorTexts \X PatchTexts

LLVM16 == <<16, 0, 0>>

LLVM17 == <<17, 0, 1>>

ExplicitValues == {None, LLVM16, LLVM17}

ExplicitMaps ==
    UNION {[ks -> ExplicitValues] :
             ks \in {s \in SUBSET ReleaseKeys : Cardinality(s) <= MaxReleases}}

InitInfer ==
    /\ pc = "start"
    /\ section_explicit \in ExplicitMaps
    /\ inferred = EmptyDict
    /\ OthersIdle({"infer"})

\* inferred = infer_branch_versions(section_explicit)
Infer ==
    /\ pc = "start"
    /\ inferred' = infer_branch_versions(section_explicit)
    /\ pc' = "done"
    /\ UNCHANGED <<section_explicit>>
    /\ OthersUnchanged({"infer"})

NextInfer == Infer

SpecInfer == InitInfer /\ [][NextInfer]_vars

(***************************************************************************)
(* Inputs of the changelog section extractor                               *)
(***************************************************************************)

\* The largest number of lines in a changelog.
MaxLines == 5

Release100 == <<<<1>>, <<0>>, <<0>>>>

Release101 == <<<<1>>, <<0>>, <<1>>>>

LLVMToken16 == <<<<1, 6>>, <<0>>, <<0>>>>

ChangelogLines ==
    {HeaderLine(Release100), HeaderLine(Release101), UnderlineLine,
     TextLine(<<>>), TextLine(<<LLVMToken16>>)}

Changelogs == UNION {[1..n -> ChangelogLines] : n \in 0..MaxLines}

InitChangelog ==
    /\ pc = "start"
    /\ lines \in Changelogs
    /\ headers = <<>>
    /\ sections = EmptyDict
    /\ OthersIdle({"changelog"})

\* changelog_sections = parse_changelog_sections(changelog_text); headers is the
\* function's local list of (line index, version) pairs after its scan.
ParseChangelog ==
    /\ pc = "start"
    /\ headers' = ScanHeaders(lines, 0, <<>>)
    /\ sections' = parse_changelog_sections(lines)
    /\ pc' = "parsed"
    /\ UNCHANGED <<lines>>
    /\ OthersUnchanged({"changelog"})

NextChangelog == ParseChangelog

SpecChangelog == InitChangelog /\ [][NextChangelog]_vars

(***************************************************************************)
(* Inputs of the per-section LLVM version scan                             *)
(***************************************************************************)

\* The largest number of lines in a section.
MaxSectionLines == 2

\* "LLVM 9.0.0", "LLVM 16.0.0", "LLVM 16.0.1", "LLVM 16.1.0", "LLVM 16.0.01"
LLVMTokens ==
    {<<<<9>>, <<0>>, <<0>>>>, <<<<1, 6>>, <<0>>, <<0>>>>, <<<<1, 6>>, <<0>>, <<1>>>>,
     <<<<1, 6>>, <<1>>, <<0>>>>, <<<<1, 6>>, <<0>>, <<0, 1>>>>}

\* The matches on one line: none, one or two.
TokenRuns ==
    {<<>>} \cup {<<t>> : t \in LLVMTokens} \cup {<<t, u>> : t, u \in LLVMTokens}

SectionTexts ==
    UNION {[1..n -> {TextLine(ts) : ts \in TokenRuns}] : n \in 0..MaxSectionLines}

InitHighest ==
    /\ pc = "start"
    /\ section_lines \in SectionTexts
    /\ highest = None
    /\ OthersIdle({"highest"})

\* section_explicit[release] = highest_llvm_version_in_section(section_lines)
ScanSection ==
    /\ pc = "start"
    /\ highest' = highest_llvm_version_in_section(section_lines)
    /\ pc' = "scanned"
    /\ UNCHANGED <<section_lines>>
    /\ OthersUnchanged({"highest"})

NextHighest == ScanSection

SpecHighest == InitHighest /\ [][NextHighest]_vars

(***************************************************************************)
(* Inputs of the aggregator and the policy mapper                          *)
(*                                                                         *)
(* main gives a release a version only when infer_branch_versions returned *)
(* an entry under the release's own text, and that function keys its       *)
(* result by str(SemVer): a release whose text is not in that form (zero   *)
(* padded, or followed by the newline SEMVER_ONLY_RE lets through) reaches *)
(* the aggregator with an absent version only.                             *)
(***************************************************************************)

\* "2.9.0", "2.10.0", "3.0.0"
CanonicalReleases ==
    {<<<<2>>, <<9>>, <<0>>>>, <<<<2>>, <<1, 0>>, <<0>>>>, <<<<3>>, <<0>>, <<0>>>>}

\* "2.09.0", and "3.0.0" followed by a newline
OtherReleases == {<<<<2>>, <<0, 9>>, <<0>>>>, <<<<3>>, <<0>>, <<0>>, <<10>>>>}

LLVM15 == <<15, 0, 7>>

MaxAggReleases == 4

ReleaseToLLVMMaps ==
    UNION {[ks -> {None, LLVM15, LLVM16, LLVM17}] :
             ks \in {x \in SUBSET (CanonicalReleases \cup OtherReleases) :
                        Cardinality(x) <= MaxAggReleases}}

\* --min-llvm-major
LLVMFloors == {16, 17}

\* --flang-major-range as (start, end), start <= end
FlangRanges == {<<0, 0>>, <<0, 1>>, <<17, 17>>, <<17, 18>>, <<16, 18>>}

InitAggregate ==
    /\ pc = "start"
    /\ release_to_llvm_version \in
            {m \in ReleaseToLLVMMaps : \A r \in DOMAIN m : r \in OtherReleases => m[r] = None}
    /\ min_llvm_major \in LLVMFloors
    /\ flang_range \in FlangRanges
    /\ llvm_major_map = EmptyDict
    /\ policy_map = EmptyDict
    /\ OthersIdle({"aggregate"})

\* llvm_major_map = latest_release_per_llvm_major(release_to_llvm_version, min_llvm_major)
Aggregate ==
    /\ pc = "start"
    /\ llvm_major_map' = latest_release_per_llvm_major(release_to_llvm_version, min_llvm_major)
    /\ pc' = "aggregated"
    /\ UNCHANGED <<release_to_llvm_version, min_llvm_major, flang_range, policy_map>>
    /\ OthersUnchanged({"aggregate"})

\* policy_map = flang_prev_major_policy_map(llvm_major_map, start_major, end_major)
MapPolicy ==
    /\ pc = "aggregated"
    /\ policy_map' = flang_prev_major_policy_map(llvm_major_map, flang_range[1], flang_range[2])
    /\ pc' = "mapped"
    /\ UNCHANGED <<release_to_llvm_version, min_llvm_major, flang_range, llvm_major_map>>
    /\ OthersUnchanged({"aggregate"})

NextAggregate == Aggregate \/ MapPolicy

SpecAggregate == InitAggregate /\ [][NextAggregate]_vars

(***************************************************************************)
(* Inputs of SemVer.parse                                                  *)
(***************************************************************************)

MaxTextLen == 6

TextChars == {0, 1, DOT, NL, SP}

Texts == UNION {[1..n -> TextChars] : n \in 0..MaxTextLen}

InitParse ==
    /\ pc = "start"
    /\ text \in Texts
    /\ parse_result = None
    /\ parse_raised = FALSE
    /\ OthersIdle({"parse"})

\* SemVer.parse(text): raises ValueError when the pattern does not match.
Parse ==
    /\ pc = "start"
    /\ LET match == SEMVER_ONLY_RE_match(text)
       IN IF match = None
          THEN parse_raised' = TRUE /\ parse_result' = None
          ELSE parse_raised' = FALSE /\ parse_result' = SemVerParse(match)
    /\ pc' = "returned"
    /\ UNCHANGED <<text>>
    /\ OthersUnchanged({"parse"})

NextParse == Parse

SpecParse == InitParse /\ [][NextParse]_vars

(***************************************************************************)
(* Inputs of parse_revisions_bzl                                           *)
(***************************************************************************)

MaxRevisionLines == 5

\* "3.1.5", "3.1.6"
Release315 == <<<<3>>, <<1>>, <<5>>>>

Release316 == <<<<3>>, <<1>>, <<6>>>>

RevisionLines ==
    {StartLine(Release315), StartLine(Release316),
     FieldLine("hash", "aa"), FieldLine("sha_linux", "aa"), FieldLine("sha_linux", "bb"),
     EndLine, OtherLine}

RevisionTexts == UNION {[1..n -> RevisionLines] : n \in 0..MaxRevisionLines}

InitRevisions ==
    /\ pc = "start"
    /\ revisions_lines \in RevisionTexts
    /\ revision_rows = EmptyDict
    /\ OthersIdle({"revisions"})

\* revision_rows = parse_revisions_bzl(revisions_text)
ParseRevisions ==
    /\ pc = "start"
    /\ revision_rows' = parse_revisions_bzl(revisions_lines)
    /\ pc' = "parsed"
    /\ UNCHANGED <<revisions_lines>>
    /\ OthersUnchanged({"revisions"})

NextRevisions == ParseRevisions

SpecRevisions == InitRevisions /\ [][NextRevisions]_vars

(***************************************************************************)
(* The generator's main, step by step                                      *)
(***************************************************************************)

MaxHashReleases == 3

MaxSections == 2

\* "3.1.4", "3.1.05", "3.1.5" with a newline after it, "3.1"
Release314 == <<<<3>>, <<1>>, <<4>>>>

Release3105 == <<<<3>>, <<1>>, <<0, 5>>>>

Release315NL == <<<<3>>, <<1>>, <<5>>, <<NL>>>>

Release31 == <<<<3>>, <<1>>>>

LLVMToken17 == <<<<1, 7>>, <<0>>, <<1>>>>

\* --flang-major-range after split("-", 1): "17-18", "18-17" and "17"
RangeArgs == {<<17, 18>>, <<18, 17>>, <<17>>}

\* --min-emsdk-version: "3.1.5" and "3.1"
FloorArgs == {<<3, DOT, 1, DOT, 5>>, <<3, DOT, 1>>}

\* The release-hash document: a JSON object with a releases object, or a text
\* json.loads rejects.
TagsDocuments ==
    {[json |-> "object", releases |-> h] :
        h \in UNION {[ks -> {"aa"}] :
                ks \in {x \in SUBSET {Release314, Release315, Release316, Release315NL, Release31} :
                           Cardinality(x) <= MaxHashReleases}}}
    \cup {[json |-> "malformed", releases |-> EmptyDict]}

\* The checksum document: empty; a block of 3.1.5; blocks of 3.1.5 and 3.1.6 and an
\* open block.
MainRevisionTexts ==
    {<<>>,
     <<StartLine(Release315), FieldLine("hash", "aa"), FieldLine("sha_linux", "bb"), EndLine>>,
     <<StartLine(Release315), FieldLine("sha_linux", "aa"), FieldLine("sha_win", "bb"), EndLine,
       StartLine(Release316), FieldLine("hash", "aa"), EndLine,
       StartLine(Release314), FieldLine("sha_mac", "aa")>>}

\* A changelog section: header, underline and one line of text.
MainSection(key, tokens) == <<HeaderLine(key), UnderlineLine, TextLine(tokens)>>

MainSections ==
    {MainSection(Release315, <<>>), MainSection(Release315, <<LLVMToken16>>),
     MainSection(Release3105, <<>>), MainSection(Release3105, <<LLVMToken17>>),
     MainSection(Release316, <<>>), MainSection(Release316, <<LLVMToken17>>)}

RECURSIVE Flatten(_)
Flatten(seqs) == IF seqs = <<>> THEN <<>> ELSE Head(seqs) \o Flatten(Tail(seqs))

MainChangelogs == {Flatten(q) : q \in UNION {[1..n -> MainSections] : n \in 0..MaxSections}}

InitMain ==
    /\ pc = "start"
    /\ range_arg \in RangeArgs
    /\ min_emsdk_arg \in FloorArgs
    /\ min_llvm_major \in LLVMFloors
    /\ min_emsdk_version = None
    /\ tags_text = [json |-> "", releases |-> EmptyDict]
    /\ release_hashes = EmptyDict
    /\ releases = EmptyDict
    /\ output_file = <<>>
    /\ release_to_llvm_version = EmptyDict
    /\ llvm_major_map = EmptyDict
    /\ flang_range = <<>>
    /\ policy_map = EmptyDict
    /\ OthersIdle({"main", "aggregate"})

\* An exception leaves main: nothing more is assigned.
Abort == pc' = "aborted" /\ UNCHANGED <<inferVars, changelogVars, highestVars, aggregateVars,
                                        parseVars, revisionsVars, mainVars, resolveVars>>

\* The range is split and converted, checked to be ascending, and the floor parsed.
ValidateArguments ==
    /\ pc = "start"
    /\ IF \/ Len(range_arg) # 2
          \/ range_arg[1] > range_arg[2]
          \/ SEMVER_ONLY_RE_match(min_emsdk_arg) = None
       THEN Abort
       ELSE /\ flang_range' = range_arg
            /\ min_emsdk_version' = SemVerParse(SEMVER_ONLY_RE_match(min_emsdk_arg))
            /\ pc' = "validated"
            /\ UNCHANGED <<range_arg, min_emsdk_arg, tags_text, release_hashes, releases,
                           output_file, release_to_llvm_version, min_llvm_major,
                           llvm_major_map, policy_map>>
            /\ OthersUnchanged({"main", "aggregate"})

\* tags_text = fetch_text(EMSDK_TAGS_URL): a document, or an error.
FetchTags ==
    /\ pc = "validated"
    /\ \/ Abort
       \/ /\ tags_text' \in TagsDocuments
          /\ pc' = "fetched_tags"
          /\ UNCHANGED <<range_arg, min_emsdk_arg, min_emsdk_version, release_hashes,
                         releases, output_file>>
          /\ OthersUnchanged({"main"})

\* revisions_text = fetch_text(EMSDK_REVISIONS_URL)
FetchRevisions ==
    /\ pc = "fetched_tags"
    /\ \/ Abort
       \/ /\ revisions_lines' \in MainRevisionTexts
          /\ pc' = "fetched_revisions"
          /\ UNCHANGED <<revision_rows>>
          /\ OthersUnchanged({"revisions"})

\* changelog_text = fetch_text(EMSCRIPTEN_CHANGELOG_URL)
FetchChangelog ==
    /\ pc = "fetched_revisions"
    /\ \/ Abort
       \/ /\ lines' \in MainChangelogs
          /\ pc' = "fetched"
          /\ UNCHANGED <<headers, sections>>
          /\ OthersUnchanged({"changelog"})

\* The three documents are parsed; json.loads raises on a malformed text.
ParseDocuments ==
    /\ pc = "fetched"
    /\ IF tags_text.json # "object"
       THEN Abort
       ELSE /\ release_hashes' = parse_emsdk_release_hashes(tags_text)
            /\ revision_rows' = parse_revisions_bzl(revisions_lines)
            /\ headers' = ScanHeaders(lines, 0, <<>>)
            /\ sections' = parse_changelog_sections(lines)
            /\ pc' = "parsed"
            /\ UNCHANGED <<range_arg, min_emsdk_arg, min_emsdk_version, tags_text, releases,
                           output_file, revisions_lines, lines>>
            /\ OthersUnchanged({"main", "revisions", "changelog"})

\* section_explicit is built and infer_branch_versions called.
InferVersions ==
    /\ pc = "parsed"
    /\ section_explicit' = section_explicit_of(sections)
    /\ inferred' = infer_branch_versions(section_explicit_of(sections))
    /\ pc' = "inferred"
    /\ OthersUnchanged({"infer"})

\* The assembly loop and the two derived maps.
Assemble ==
    /\ pc = "inferred"
    /\ releases' = releases_of(release_hashes, revision_rows, inferred, min_emsdk_version)
    /\ release_to_llvm_version' =
            release_to_llvm_version_of(release_hashes, inferred, min_emsdk_version)
    /\ llvm_major_map' =
            latest_release_per_llvm_major(
                release_to_llvm_version_of(release_hashes, inferred, min_emsdk_version),
                min_llvm_major)
    /\ policy_map' =
            flang_prev_major_policy_map(
                latest_release_per_llvm_major(
                    release_to_llvm_version_of(release_hashes, inferred, min_emsdk_version),
                    min_llvm_major),
                flang_range[1], flang_range[2])
    /\ pc' = "assembled"
    /\ UNCHANGED <<range_arg, min_emsdk_arg, min_emsdk_version, tags_text, release_hashes,
                   output_file, min_llvm_major, flang_range>>
    /\ OthersUnchanged({"main", "aggregate"})

\* A writer that opens the file as soon as the documents are fetched.
ready_to_write_early(step) == step \in {"fetched", "assembled"}

\* The with block is reached after the payload is built.
ready_to_write(step) == step = "assembled"

\* open(args.output, "w"), json.dump(payload) and the final newline.
WriteOutput ==
    /\ ready_to_write(pc)
    /\ output_file' = <<payload_of(llvm_major_map, policy_map, releases)>>
    /\ pc' = "written"
    /\ UNCHANGED <<range_arg, min_emsdk_arg, min_emsdk_version, tags_text, release_hashes,
                   releases>>
    /\ OthersUnchanged({"main"})

NextMain ==
    \/ ValidateArguments
    \/ FetchTags
    \/ FetchRevisions
    \/ FetchChangelog
    \/ ParseDocuments
    \/ InferVersions
    \/ Assemble
    \/ WriteOutput

SpecMain == InitMain /\ [][NextMain]_vars

(***************************************************************************)
(* Inputs of resolve_emsdk_for_llvm                                        *)
(***************************************************************************)

\* --llvm-version: "9.0.1", "8.0.1", "9.0.1" after a space, before a space and
\* before a newline, "9.0", "9.0.1." and "9 .0.1"
VersionArgs ==
    {<<9, DOT, 0, DOT, 1>>, <<8, DOT, 0, DOT, 1>>, <<SP, 9, DOT, 0, DOT, 1>>,
     <<9, DOT, 0, DOT, 1, SP>>, <<9, DOT, 0, DOT, 1, NL>>, <<9, DOT, 0>>,
     <<9, DOT, 0, DOT, 1, DOT>>, <<9, SP, DOT, 0, DOT, 1>>}

\* A row of releases: {} or the two fields read from it.
ReleaseRows ==
    {EmptyDict} \cup
    [emscripten_release_hash : {None, <<"">>, <<"aa">>}, llvm_major_estimate : {None, <<8>>}]

\* --map-file: no file, a text json.loads rejects, or an object with a policy for
\* major 9 at most and a row for release 3.1.5 at most.
MapFiles ==
    {[json |-> "missing", policy |-> EmptyDict, releases |-> EmptyDict],
     [json |-> "malformed", policy |-> EmptyDict, releases |-> EmptyDict]}
    \cup
    {[json |-> "object", policy |-> p, releases |-> r] :
        p \in {EmptyDict} \cup [{<<9>>} -> {None, <<"">>, <<"3.1.5">>, <<"3.1.6">>}],
        r \in {EmptyDict} \cup [{"3.1.5"} -> ReleaseRows]}

InitResolve ==
    /\ pc = "start"
    /\ llvm_version_arg \in VersionArgs
    /\ map_file \in MapFiles
    /\ stdout = <<>>
    /\ OthersIdle({"resolve"})

\* main: the three lines are written and the process exits normally, or an
\* exception ends it before the first of them.
Resolve ==
    /\ pc = "start"
    /\ stdout' = resolve_output(llvm_version_arg, map_file)
    /\ pc' = IF resolve_output(llvm_version_arg, map_file) = <<>> THEN "failed" ELSE "exited"
    /\ UNCHANGED <<llvm_version_arg, map_file>>
    /\ OthersUnchanged({"resolve"})

NextResolve == Resolve

SpecResolve == InitResolve /\ [][NextResolve]_vars

(***************************************************************************)
(* Claims about infer_branch_versions (checked under SpecInfer)            *)
(***************************************************************************)

ReleasePatch(r) == ParseInt(r[3])

ReleaseBranch(r) == <<ParseInt(r[1]), ParseInt(r[2])>>

SameBranch(r, s) == ReleaseBranch(r) = ReleaseBranch(s)

HasExplicit(r) == r \in DOMAIN section_explicit /\ section_explicit[r] # None

\* The entry the engine stores for release r: it is written under str(parse(r)).
ResultOf(r) == DictGet(inferred, SemVerStr(SemVerParse(r)))

\* Every input key is its own canonical form "major.minor.patch" (no zero padding).
AllCanonical == \A r \in DOMAIN section_explicit : SemVerStr(SemVerParse(r)) = r

\* The explicit releases of r's branch with a patch number below r's.
ExplicitBelow(r) ==
    {a \in DOMAIN section_explicit :
        SameBranch(a, r) /\ HasExplicit(a) /\ ReleasePatch(a) < ReleasePatch(r)}

\* The explicit releases of r's branch.
ExplicitInBranch(r) ==
    {a \in DOMAIN section_explicit : SameBranch(a, r) /\ HasExplicit(a)}

\* C1: a release without an explicit version whose branch has an explicit release
\* of smaller patch resolves to (V, A, forward_fill), A being the explicit release
\* of the branch with the greatest patch below its own and V that release's version.
C1_ForwardFill ==
    pc = "done" =>
        \A r \in DOMAIN section_explicit :
            (~HasExplicit(r) /\ ExplicitBelow(r) # {}) =>
                \E a \in ExplicitBelow(r) :
                    /\ \A b \in ExplicitBelow(r) : ReleasePatch(b) <= ReleasePatch(a)
                    /\ ResultOf(r) = <<section_explicit[a], a, "forward_fill">>

\* C1 on inputs whose keys are all canonical: the statement of C1 holds there.
C1_ForwardFill_Canonical == AllCanonical => C1_ForwardFill

\* C2: in a branch with an explicit release, every release whose patch is below that
\* of the lowest-patch explicit release A resolves to (V, A, backward_fill), V being
\* A's explicit version.
C2_BackwardFill ==
    pc = "done" =>
        \A r \in DOMAIN section_explicit :
            (/\ ExplicitInBranch(r) # {}
             /\ \A b \in ExplicitInBranch(r) : ReleasePatch(r) < ReleasePatch(b)) =>
                \E a \in ExplicitInBranch(r) :
                    /\ \A b \in ExplicitInBranch(r) : ReleasePatch(a) <= ReleasePatch(b)
                    /\ ResultOf(r) = <<section_explicit[a], a, "backward_fill">>

\* C2 on inputs whose keys are all canonical: the statement of C2 holds there.
C2_BackwardFill_Canonical == AllCanonical => C2_BackwardFill

\* C3: when no release of a branch has an explicit version, every member of the
\* branch resolves to (absent, absent, unknown), whatever the other branches hold.
C3_UnknownBranch ==
    pc = "done" =>
        \A r \in DOMAIN section_explicit :
            ExplicitInBranch(r) = {} => ResultOf(r) = <<None, None, "unknown">>

\* C3's case: a finished run with a branch without explicit versions beside a
\* branch that has one.
C3_Witness ==
    /\ pc = "done"
    /\ \E r, s \in DOMAIN section_explicit :
        /\ ExplicitInBranch(r) = {}
        /\ ~SameBranch(r, s)
        /\ HasExplicit(s)
        /\ ResultOf(r) = <<None, None, "unknown">>

\* C4: every returned entry is (absent, absent, unknown), or has a fill/explicit mode
\* and an anchor that is an input release of the entry's own branch whose explicit
\* version is present and is the assigned version.
C4_Provenance ==
    pc = "done" =>
        \A k \in DOMAIN inferred :
            LET version == inferred[k][1]
                anchor == inferred[k][2]
                mode == inferred[k][3]
            IN \/ mode = "unknown" /\ version = None /\ anchor = None
               \/ /\ mode \in {"explicit", "forward_fill", "backward_fill"}
                  /\ anchor \in DOMAIN section_explicit
                  /\ SameBranch(anchor, k)
                  /\ section_explicit[anchor] # None
                  /\ section_explicit[anchor] = version

\* C4's case: a finished run with a filled entry in one branch while another branch
\* states a different explicit version.
C4_Witness ==
    /\ pc = "done"
    /\ \E k \in DOMAIN inferred, s \in DOMAIN section_explicit :
        /\ inferred[k][3] \in {"forward_fill", "backward_fill"}
        /\ ~SameBranch(k, s)
        /\ HasExplicit(s)
        /\ section_explicit[s] # inferred[k][1]

\* C5: every input release with an explicit version E ends as (E, itself, explicit).
C5_ExplicitKept ==
    pc = "done" =>
        \A r \in DOMAIN section_explicit :
            HasExplicit(r) => ResultOf(r) = <<section_explicit[r], r, "explicit">>

\* C5 on inputs whose keys are all canonical: the statement of C5 holds there.
C5_ExplicitKept_Canonical == AllCanonical => C5_ExplicitKept

\* C6: the result has exactly the keys of the input.
C6_SameKeys == pc = "done" => DOMAIN inferred = DOMAIN section_explicit

\* C6 on inputs whose keys are all canonical: the statement of C6 holds there.
C6_SameKeys_Canonical == AllCanonical => C6_SameKeys

(***************************************************************************)
(* Claims about parse_changelog_sections (checked under SpecChangelog)     *)
(*                                                                         *)
(* Line indexes are 0-based as in the code; lines[h + 1] is the line at    *)
(* index h.                                                                *)
(***************************************************************************)

\* The line at index h matches the release-header pattern.
IsHeaderText(h) == h \in 0..(Len(lines) - 1) /\ lines[h + 1].kind = "header"

\* The line at index h exists and is made solely of dashes.
IsDashes(h) == h \in 0..(Len(lines) - 1) /\ lines[h + 1].kind = "underline"

\* The indexes of the recognized headers: a header line directly followed by dashes.
RecognizedHeaders == {h \in 0..(Len(lines) - 1) : IsHeaderText(h) /\ IsDashes(h + 1)}

HeaderVersion(h) == lines[h + 1].semver

\* The index of the next recognized header after h, or the number of lines.
NextBoundary(h) ==
    LET later == {g \in RecognizedHeaders : g > h}
    IN IF later = {} THEN Len(lines)
       ELSE CHOOSE g \in later : \A x \in later : g <= x

\* The indexes of the lines of the section headed at h.
SectionRange(h) == (h + 2)..(NextBoundary(h) - 1)

\* The lines of the section headed at h: indexes h+2 up to the next boundary.
RangeBody(h) == [n \in 1..(NextBoundary(h) - h - 2) |-> lines[h + 2 + n]]

\* No later recognized header carries the version of the header at h.
IsLastOfVersion(h) ==
    ~\E g \in RecognizedHeaders : g > h /\ HeaderVersion(g) = HeaderVersion(h)

\* The recognized header nearest before index i.
IsPrecedingHeader(h, i) ==
    /\ h \in RecognizedHeaders
    /\ h < i
    /\ ~\E g \in RecognizedHeaders : h < g /\ g < i

\* A header-pattern line whose next line is missing or not made of dashes.
IsBareHeader(i) == IsHeaderText(i) /\ ~IsDashes(i + 1)

\* The 0-based position in headers of the last entry before line index i.
PrecedingEntry(i) ==
    LET before == {n \in 0..(Len(headers) - 1) : headers[n + 1][1] < i}
    IN CHOOSE n \in before : \A m \in before : m <= n

\* C7: a header-pattern line not followed by a dash line is no section boundary: it
\* is no entry of headers and adds no section key, and it is a body line of the
\* section of the recognized header before it, if there is one.
C7_BareHeaderIsBody ==
    pc = "parsed" =>
        \A i \in 0..(Len(lines) - 1) :
            IsBareHeader(i) =>
                /\ \A n \in 1..Len(headers) : headers[n][1] # i
                /\ (~\E h \in RecognizedHeaders : HeaderVersion(h) = HeaderVersion(i))
                        => HeaderVersion(i) \notin DOMAIN sections
                /\ (\E h \in RecognizedHeaders : h < i) =>
                        /\ \E n \in 1..Len(headers) : headers[n][1] < i
                        /\ LET n == PrecedingEntry(i)
                               h == headers[n + 1][1]
                               body == SectionBody(lines, headers, n)
                           IN /\ IsPrecedingHeader(h, i)
                              /\ Len(body) >= i - h - 1
                              /\ body[i - h - 1] = lines[i + 1]
                              /\ IsLastOfVersion(h) => sections[headers[n + 1][2]] = body

\* C7's case: a parsed changelog with a bare header line of an otherwise unseen
\* version lying inside the stored section of the header before it.
C7_Witness ==
    /\ pc = "parsed"
    /\ \E i \in 0..(Len(lines) - 1), h \in RecognizedHeaders :
        /\ IsBareHeader(i)
        /\ IsPrecedingHeader(h, i)
        /\ HeaderVersion(i) \notin DOMAIN sections
        /\ sections[HeaderVersion(h)][i - h - 1] = lines[i + 1]

\* The recognized headers carry pairwise distinct release versions.
DistinctHeaderVersions ==
    \A g, h \in RecognizedHeaders : HeaderVersion(g) = HeaderVersion(h) => g = h

\* C8: with distinct header versions, the stored body of the recognized header at h
\* is exactly lines h+2 up to the next recognized header (or the end); the sections
\* do not overlap and hold no recognized header line and no underline of one.
C8_HalfOpenBodies ==
    (pc = "parsed" /\ DistinctHeaderVersions) =>
        \A h \in RecognizedHeaders :
            /\ HeaderVersion(h) \in DOMAIN sections
            /\ sections[HeaderVersion(h)] = RangeBody(h)
            /\ \A g \in RecognizedHeaders :
                /\ g # h => SectionRange(g) \cap SectionRange(h) = {}
                /\ g \notin SectionRange(h)
                /\ (g + 1) \notin SectionRange(h)

\* C8's case: two recognized headers of different versions, the first with a
\* non-empty stored body.
C8_Witness ==
    /\ pc = "parsed"
    /\ DistinctHeaderVersions
    /\ \E g, h \in RecognizedHeaders :
        /\ g < h
        /\ Len(sections[HeaderVersion(g)]) > 0
        /\ sections[HeaderVersion(g)] = RangeBody(g)

\* C9: the stored section of a version is the body of the last recognized header
\* carrying it; the sections' keys are the recognized headers' versions.
C9_LastHeaderWins ==
    pc = "parsed" =>
        /\ DOMAIN sections = {HeaderVersion(h) : h \in RecognizedHeaders}
        /\ \A h \in RecognizedHeaders :
                IsLastOfVersion(h) => sections[HeaderVersion(h)] = RangeBody(h)

\* C9's case: two recognized headers of one version with different bodies, the later
\* one's body stored.
C9_Witness ==
    /\ pc = "parsed"
    /\ \E g, h \in RecognizedHeaders :
        /\ g < h
        /\ HeaderVersion(g) = HeaderVersion(h)
        /\ IsLastOfVersion(h)
        /\ RangeBody(g) # RangeBody(h)
        /\ sections[HeaderVersion(h)] = RangeBody(h)

(***************************************************************************)
(* Claims about highest_llvm_version_in_section (checked under SpecHighest)*)
(***************************************************************************)

\* The numeric value of every token of the section.
TokenValues ==
    {<<ParseInt(t[1]), ParseInt(t[2]), ParseInt(t[3])>> :
        t \in UNION {{section_lines[i].tokens[n] : n \in 1..Len(section_lines[i].tokens)} :
                        i \in 1..Len(section_lines)}}

\* a <= b in the numeric order of (major, minor, patch) triples.
TripleLeq(a, b) ==
    \/ a[1] < b[1]
    \/ a[1] = b[1] /\ a[2] < b[2]
    \/ a[1] = b[1] /\ a[2] = b[2] /\ a[3] <= b[3]

\* The section read backwards: its lines, and the tokens of each line, reversed.
ReversedSection ==
    [i \in 1..Len(section_lines) |->
        LET ts == section_lines[Len(section_lines) + 1 - i].tokens
        IN TextLine([n \in 1..Len(ts) |-> ts[Len(ts) + 1 - n]])]

\* C10: the result is absent when the section holds no token, and otherwise the
\* numeric maximum of all its tokens, whatever their order in the section.
C10_HighestIsMaximum ==
    pc = "scanned" =>
        /\ TokenValues = {} => highest = None
        /\ TokenValues # {} =>
            /\ highest \in TokenValues
            /\ \A v \in TokenValues : TripleLeq(v, highest)
        /\ highest_llvm_version_in_section(ReversedSection) = highest

\* C10's case: a scanned section whose greatest token is neither the first nor the
\* last one, over two lines, with a token of a smaller number but a greater text.
C10_Witness ==
    /\ pc = "scanned"
    /\ Len(section_lines) = 2
    /\ Len(section_lines[1].tokens) = 2
    /\ Len(section_lines[2].tokens) = 2
    /\ section_lines[1].tokens[1] = <<<<9>>, <<0>>, <<0>>>>
    /\ highest = <<16, 1, 0>>
    /\ SemVerParse(section_lines[1].tokens[2]) = highest
    /\ SemVerParse(section_lines[2].tokens[2]) # highest

(***************************************************************************)
(* Claims about the aggregator and the policy mapper (SpecAggregate)       *)
(***************************************************************************)

\* The releases whose version is present with major M at or above the floor.
ReleasesOfMajor(M) ==
    {r \in DOMAIN release_to_llvm_version :
        /\ release_to_llvm_version[r] # None
        /\ release_to_llvm_version[r][1] = M
        /\ M >= min_llvm_major}

\* The LLVM majors some release qualifies for.
QualifyingMajors ==
    {release_to_llvm_version[r][1] :
        r \in {x \in DOMAIN release_to_llvm_version :
                  /\ release_to_llvm_version[x] # None
                  /\ release_to_llvm_version[x][1] >= min_llvm_major}}

\* The numeric (major, minor, patch) of a release text.
ReleaseNumber(r) == <<ParseInt(r[1]), ParseInt(r[2]), ParseInt(r[3])>>

\* C11: the map's keys are exactly the majors at or above the floor that some
\* release with a present version has, and the value for M is the numerically
\* greatest such release.
C11_LatestPerMajor ==
    pc \in {"aggregated", "mapped"} =>
        /\ DOMAIN llvm_major_map = {StrInt(M) : M \in QualifyingMajors}
        /\ \A M \in QualifyingMajors :
            /\ llvm_major_map[StrInt(M)] \in ReleasesOfMajor(M)
            /\ \A r \in ReleasesOfMajor(M) :
                    TripleLeq(ReleaseNumber(r), ReleaseNumber(llvm_major_map[StrInt(M)]))

\* C11's case: 2.9.0 and 2.10.0 share major 16, 2.10.0 is chosen, and a release
\* below the floor and one with an absent version are left out.
C11_Witness ==
    /\ pc = "aggregated"
    /\ min_llvm_major = 16
    /\ <<<<2>>, <<9>>, <<0>>>> \in ReleasesOfMajor(16)
    /\ llvm_major_map[<<1, 6>>] = <<<<2>>, <<1, 0>>, <<0>>>>
    /\ \E r \in DOMAIN release_to_llvm_version : release_to_llvm_version[r] = LLVM15
    /\ \E r \in DOMAIN release_to_llvm_version : release_to_llvm_version[r] = None

\* C12: the policy map's keys are exactly the majors of [start, end] as strings, and
\* the value at m is the latest-release map's value at m - 1, absent when m - 1 is
\* no key of it.
C12_PolicyMap ==
    pc = "mapped" =>
        /\ DOMAIN policy_map = {IntStr(m) : m \in flang_range[1]..flang_range[2]}
        /\ \A m \in flang_range[1]..flang_range[2] :
            policy_map[IntStr(m)] =
                IF IntStr(m - 1) \in DOMAIN llvm_major_map
                THEN llvm_major_map[IntStr(m - 1)]
                ELSE None

\* C12's case: a range with one major whose predecessor has a latest release and
\* one whose predecessor has none.
C12_Witness ==
    /\ pc = "mapped"
    /\ \E m, n \in flang_range[1]..flang_range[2] :
        /\ IntStr(m - 1) \in DOMAIN llvm_major_map
        /\ policy_map[IntStr(m)] = llvm_major_map[IntStr(m - 1)]
        /\ IntStr(n - 1) \notin DOMAIN llvm_major_map
        /\ policy_map[IntStr(n)] = None

(***************************************************************************)
(* Claims about SemVer.parse (SpecParse)                                   *)
(***************************************************************************)

\* The text is digits, a dot, digits, a dot, digits and nothing else.
IsExactForm(chars) ==
    \E i, j \in 1..Len(chars) :
        /\ 1 < i /\ i + 1 < j /\ j < Len(chars)
        /\ chars[i] = DOT /\ chars[j] = DOT
        /\ \A k \in (1..Len(chars)) \ {i, j} : chars[k] \in 0..9

\* C13: SemVer.parse raises for every text that is not exactly digits.digits.digits
\* and returns only for texts of exactly that form.
C13_ParseExact ==
    pc = "returned" => (parse_raised <=> ~IsExactForm(text))

\* What the code does: it returns exactly for the texts of that form and for those
\* texts followed by one newline.
C13_ParseUpToNewline ==
    pc = "returned" =>
        (~parse_raised <=>
            \/ IsExactForm(text)
            \/ /\ Len(text) > 0 /\ text[Len(text)] = NL
               /\ IsExactForm(SubSeq(text, 1, Len(text) - 1)))

\* A text ending in a newline that was parsed without an error.
C13_NewlineAccepted ==
    /\ pc = "returned"
    /\ text = <<1, DOT, 0, DOT, 1, NL>>
    /\ ~parse_raised
    /\ parse_result = <<1, 0, 1>>

(***************************************************************************)
(* Claims about parse_revisions_bzl (SpecRevisions)                        *)
(***************************************************************************)

RevLineNos == 1..Len(revisions_lines)

\* A block is open when line i is read: a start line precedes it with no
\* terminator in between.
OpenBefore(i) ==
    \E s \in RevLineNos :
        /\ s < i
        /\ revisions_lines[s].kind = "start"
        /\ \A t \in RevLineNos : (s < t /\ t < i) => revisions_lines[t].kind # "end"

\* Line s opens a block that line t terminates.
IsClosedBlock(s, t) ==
    /\ s < t
    /\ revisions_lines[s].kind = "start"
    /\ ~OpenBefore(s)
    /\ revisions_lines[t].kind = "end"
    /\ \A u \in RevLineNos : (s < u /\ u < t) => revisions_lines[u].kind # "end"

ClosedBlocks == {b \in RevLineNos \X RevLineNos : IsClosedBlock(b[1], b[2])}

\* The field lines between the start and the terminator of a block.
FieldLinesOf(b) ==
    {i \in RevLineNos : b[1] < i /\ i < b[2] /\ revisions_lines[i].kind = "field"}

\* The keys of those field lines, each with the value of its last line.
FieldsOf(b) ==
    [k \in {revisions_lines[i].key : i \in FieldLinesOf(b)} |->
        LET last == CHOOSE i \in FieldLinesOf(b) :
                        /\ revisions_lines[i].key = k
                        /\ \A j \in FieldLinesOf(b) : revisions_lines[j].key = k => j <= i
        IN revisions_lines[last].value]

\* The last closed block of a release.
LastBlockOf(r) ==
    CHOOSE b \in ClosedBlocks :
        /\ revisions_lines[b[1]].release = r
        /\ \A c \in ClosedBlocks : revisions_lines[c[1]].release = r => c[1] <= b[1]

\* C20: the releases recorded are those of the blocks a terminator closes, each
\* with exactly the field lines between its start and its terminator, the last
\* value of a key winning; nothing else in the text is recorded.
C20_RevisionBlocks ==
    pc = "parsed" =>
        /\ DOMAIN revision_rows = {revisions_lines[b[1]].release : b \in ClosedBlocks}
        /\ \A r \in DOMAIN revision_rows : revision_rows[r] = FieldsOf(LastBlockOf(r))

\* C20's case: a closed block with a key given twice, then a block left open at the
\* end of the text.
C20_Witness ==
    /\ pc = "parsed"
    /\ revisions_lines =
         <<StartLine(Release315), FieldLine("sha_linux", "aa"), FieldLine("sha_linux", "bb"),
           EndLine, StartLine(Release316)>>
    /\ DOMAIN revision_rows = {Release315}
    /\ revision_rows[Release315]["sha_linux"] = "bb"

\* A start line met while a block is open opens nothing, and a field line outside
\* a block is dropped.
C20_StartWhileOpen ==
    /\ pc = "parsed"
    /\ revisions_lines =
         <<FieldLine("hash", "aa"), StartLine(Release315), StartLine(Release316),
           FieldLine("sha_linux", "aa"), EndLine>>
    /\ DOMAIN revision_rows = {Release315}
    /\ DOMAIN revision_rows[Release315] = {"sha_linux"}

(***************************************************************************)
(* Claims about the generator's main (SpecMain)                            *)
(***************************************************************************)

\* The document written to the output file.
WrittenDocument == output_file[1]

\* The keys of the release-hash document of the form digits.digits.digits whose
\* number is at or above the floor.
SemVerKeysAtFloor ==
    {k \in DOMAIN tags_text.releases :
        /\ IsExactForm(KeyText(k))
        /\ TripleLeq(min_emsdk_version, ReleaseNumber(k))}

\* The same with one newline allowed after the third number.
SemVerKeysAtFloorUpToNewline ==
    {k \in DOMAIN tags_text.releases :
        /\ \/ IsExactForm(KeyText(k))
           \/ /\ KeyText(k)[Len(KeyText(k))] = NL
              /\ IsExactForm(SubSeq(KeyText(k), 1, Len(KeyText(k)) - 1))
        /\ TripleLeq(min_emsdk_version, ReleaseNumber(k))}

\* C14: the releases object has exactly one entry for each release of the hash
\* document whose key is a semantic version at or above the floor, and no other
\* entry, whatever the checksum document and the changelog hold.
C14_ReleasesExact ==
    pc = "written" => DOMAIN WrittenDocument.releases = SemVerKeysAtFloor

\* What the code does: a key followed by a newline has an entry as well.
C14_ReleasesUpToNewline ==
    pc = "written" => DOMAIN WrittenDocument.releases = SemVerKeysAtFloorUpToNewline

\* A written document with an entry for a key that ends in a newline, next to a
\* key below the floor and a key that is no version, both left out.
C14_NewlineEntry ==
    /\ pc = "written"
    /\ DOMAIN tags_text.releases = {Release314, Release315NL, Release31}
    /\ DOMAIN WrittenDocument.releases = {Release315NL}

\* The checksum block of a release: the fields of its last closed block, none when
\* it has no closed block.
ChecksumBlockOf(r) ==
    IF \E b \in ClosedBlocks : revisions_lines[b[1]].release = r
    THEN FieldsOf(LastBlockOf(r))
    ELSE EmptyDict

\* C15: binary_checksums of a release holds exactly the platform keys of the
\* release's checksum block with the block's values; hash is dropped, and a release
\* with no block has an empty binary_checksums.
C15_PlatformChecksums ==
    pc = "written" =>
        \A r \in DOMAIN WrittenDocument.releases :
            LET checksums == WrittenDocument.releases[r].binary_checksums
                block == ChecksumBlockOf(r)
            IN /\ DOMAIN checksums =
                    DOMAIN block \cap
                        {"sha_linux", "sha_linux_arm64", "sha_mac", "sha_mac_arm64", "sha_win"}
               /\ \A k \in DOMAIN checksums : checksums[k] = block[k]

\* C15's case: 3.1.5 has a block with hash and sha_linux and keeps sha_linux only,
\* and 3.1.6 has no block and an empty binary_checksums.
C15_Witness ==
    /\ pc = "written"
    /\ {Release315, Release316} \subseteq DOMAIN WrittenDocument.releases
    /\ DOMAIN ChecksumBlockOf(Release315) = {"hash", "sha_linux"}
    /\ DOMAIN WrittenDocument.releases[Release315].binary_checksums = {"sha_linux"}
    /\ WrittenDocument.releases[Release315].binary_checksums["sha_linux"] = "bb"
    /\ ChecksumBlockOf(Release316) = EmptyDict
    /\ WrittenDocument.releases[Release316].binary_checksums = EmptyDict

\* The document the fetched texts and the arguments determine.
FullDocument ==
    LET hashes == parse_emsdk_release_hashes(tags_text)
        rows == parse_revisions_bzl(revisions_lines)
        inf == infer_branch_versions(section_explicit_of(parse_changelog_sections(lines)))
        floor == SemVerParse(SEMVER_ONLY_RE_match(min_emsdk_arg))
        latest == latest_release_per_llvm_major(
                      release_to_llvm_version_of(hashes, inf, floor), min_llvm_major)
    IN payload_of(latest,
                  flang_prev_major_policy_map(latest, range_arg[1], range_arg[2]),
                  releases_of(hashes, rows, inf, floor))

C16_AbortedAfterFetch ==
    /\ pc = "aborted"
    /\ tags_text.json = "malformed"
    /\ lines # <<>>
    /\ output_file = <<>>

HasNoSection(r) == \A h \in RecognizedHeaders : HeaderVersion(h) # r

\* The release's number is the number of no recognized header of the changelog.
HasNoSectionOfItsNumber(r) ==
    \A h \in RecognizedHeaders : ReleaseNumber(HeaderVersion(h)) # ReleaseNumber(r)

\* The entry has no version, no major, no anchor and mode unknown, and the release
\* is no value of llvm_major_latest_emsdk.
IsUnknownEntry(r) ==
    LET doc == WrittenDocument
    IN /\ doc.releases[r].llvm_version_estimate = None
       /\ doc.releases[r].llvm_major_estimate = None
       /\ doc.releases[r].mode = "unknown"
       /\ doc.releases[r].anchor_release = None
       /\ \A M \in DOMAIN doc.llvm_major_latest_emsdk : doc.llvm_major_latest_emsdk[M] # r

\* C19: a release of the hash document that has no section in the changelog is
\* emitted unknown, with no version, major or anchor, is not filled from the other
\* releases of its branch, and is the latest release of no compiler major.
C19_NoSectionIsUnknown ==
    pc = "written" =>
        \A r \in DOMAIN WrittenDocument.releases : HasNoSection(r) => IsUnknownEntry(r)

\* What the code does: the release is unknown when no header has its number.
C19_NoSectionOfItsNumber ==
    pc = "written" =>
        \A r \in DOMAIN WrittenDocument.releases :
            HasNoSectionOfItsNumber(r) => IsUnknownEntry(r)

\* 3.1.5 has no section, the changelog has sections 3.1.05 and 3.1.6, the latter
\* with a version, and 3.1.5 is emitted as filled backward from 3.1.6.
C19_FilledWithoutSection ==
    /\ pc = "written"
    /\ Release315 \in DOMAIN WrittenDocument.releases
    /\ HasNoSection(Release315)
    /\ WrittenDocument.releases[Release315].mode = "backward_fill"
    /\ WrittenDocument.releases[Release315].anchor_release = Release316

\* A release without a section next to a release of its branch with an explicit
\* version: the former is emitted unknown.
C19_UnknownBesideExplicit ==
    /\ pc = "written"
    /\ {Release315, Release316} \subseteq DOMAIN WrittenDocument.releases
    /\ HasNoSectionOfItsNumber(Release315)
    /\ IsUnknownEntry(Release315)
    /\ WrittenDocument.releases[Release316].mode = "explicit"

(***************************************************************************)
(* Claims about resolve_emsdk_for_llvm (SpecResolve)                       *)
(***************************************************************************)

\* The argument is X.Y.Z between leading and trailing whitespace.
IsExactFormInWhitespace(chars) ==
    \E i, j \in 1..Len(chars) :
        /\ i <= j
        /\ IsExactForm(SubSeq(chars, i, j))
        /\ \A k \in 1..Len(chars) : (k < i \/ k > j) => chars[k] \in {NL, SP}

\* str(major) of the first number of the argument.
ArgMajorKey ==
    LET digits == {k \in 1..Len(llvm_version_arg) : llvm_version_arg[k] \in 0..9}
        first == CHOOSE k \in digits : \A x \in digits : k <= x
        dots == {k \in 1..Len(llvm_version_arg) : llvm_version_arg[k] = DOT}
        dot == CHOOSE k \in dots : \A x \in dots : k <= x
    IN IntStr(ParseInt(SubSeq(llvm_version_arg, first, dot - 1)))

\* The map file exists and holds a non-empty policy value for the argument's major
\* that is a key of releases, whose row has a non-empty hash and a non-null
\* llvm_major_estimate.
MapResolvesArg ==
    /\ map_file.json = "object"
    /\ ArgMajorKey \in DOMAIN map_file.policy
    /\ map_file.policy[ArgMajorKey] \notin {None, <<"">>}
    /\ map_file.policy[ArgMajorKey][1] \in DOMAIN map_file.releases
    /\ LET row == map_file.releases[map_file.policy[ArgMajorKey][1]]
       IN /\ DOMAIN row # {}
          /\ row.emscripten_release_hash \notin {None, <<"">>}
          /\ row.llvm_major_estimate # None

\* The three lines, in order.
EmitsThreeLines ==
    /\ Len(stdout) = 3
    /\ stdout[1].name = "EMSDK_VERSION"
    /\ stdout[2].name = "EMSDK_HASH"
    /\ stdout[3].name = "EMSDK_EXPECTED_LLVM_MAJOR"

\* C18: the three lines are emitted only when the version argument is X.Y.Z, the
\* map file exists and the map resolves the argument's major to a row with a hash
\* and an estimate; in every other case the script exits with an error and writes
\* none of them.
C18_EmitsOnlyWhenExact ==
    pc # "start" =>
        \/ IsExactForm(llvm_version_arg) /\ MapResolvesArg
        \/ pc = "failed" /\ stdout = <<>>

\* C18 with the argument read as the code reads it: the three lines are emitted
\* exactly when the version argument, its leading and trailing whitespace removed,
\* is X.Y.Z and the map resolves its major; in every other case the script exits
\* with an error and writes none of them.
C18_EmitsWhenStrippedExact ==
    pc # "start" =>
        IF IsExactFormInWhitespace(llvm_version_arg) /\ MapResolvesArg
        THEN /\ pc = "exited"
             /\ EmitsThreeLines
             /\ stdout[1].value = map_file.policy[ArgMajorKey][1]
             /\ stdout[2].value =
                    map_file.releases[stdout[1].value].emscripten_release_hash[1]
             /\ stdout[3].value =
                    IntStr(map_file.releases[stdout[1].value].llvm_major_estimate[1])
        ELSE pc = "failed" /\ stdout = <<>>

\* C18's case: the three lines for an argument with a space before the version.
C18_Witness ==
    /\ pc = "exited"
    /\ llvm_version_arg = <<SP, 9, DOT, 0, DOT, 1>>
    /\ EmitsThreeLines
    /\ stdout[1].value = "3.1.5"
    /\ stdout[3].value = <<8>>

\* A policy value that is no key of releases: an error and no line.
C18_MissingRow ==
    /\ pc = "failed"
    /\ llvm_version_arg = <<9, DOT, 0, DOT, 1>>
    /\ map_file.json = "object"
    /\ map_file.policy = (<<9>> :> <<"3.1.6">>)
    /\ stdout = <<>>

====
